---- MODULE Spec2Model ----
(***************************************************************************)
(* A model of serpy/serializer.py: the SerializerMeta metaclass (schema    *)
(* definition: field collection, Meta handling, field-map merge over the   *)
(* MRO, compilation) and the Serializer instance (_serialize, to_value and *)
(* the cached .data property).                                             *)
(*                                                                         *)
(* Python dicts are insertion ordered (Python >= 3.7), so a dict is a      *)
(* sequence of [name, val] entries with unique names.                    *)
(***************************************************************************)
EXTENDS Naturals, Sequences, FiniteSets

VARIABLES
    classes,    \* the schema types defined so far, in definition order
    last,       \* what the caller of the most recent operation observed
    inst,       \* the schema instance: its class, source, many flag and _data
    heap,       \* the output objects built so far: object id -> value
    calls,      \* how often each extractor ran: element -> plan index -> count
    pc,         \* per thread: where it is inside the data property
    tmp,        \* per thread: the value to_value returned, not yet stored
    ret,        \* per thread: the objects its accesses returned, in order
    raised      \* per thread: how many of its accesses raised

vars == <<classes, last, inst, heap, calls, pc, tmp, ret, raised>>

----------------------------------------------------------------------------
(* Bounds of the model. *)

\* schema types defined by the program, besides Serializer and DictSerializer
MaxClasses == 2
\* the same, for the runs that only declare fields (no Meta)
MaxPlainClasses == 4
\* accesses to .data by one thread
MaxAccesses == 2
\* elements of the collection of a many=True instance
MaxMany == 2

----------------------------------------------------------------------------
(* Sequence helpers. *)

RECURSIVE Reverse(_)
Reverse(s) == IF s = <<>> THEN <<>> ELSE Append(Reverse(Tail(s)), Head(s))

Range(s) == {s[i] : i \in 1..Len(s)}

RECURSIVE Concat(_)
Concat(ss) == IF ss = <<>> THEN <<>> ELSE Head(ss) \o Concat(Tail(ss))

\* the sequences over S of length at most n
SeqsUpTo(S, n) == UNION {[1..k -> S] : k \in 0..n}

----------------------------------------------------------------------------
(* Python dict as an insertion-ordered sequence of entries [name, val].  *)

Keys(d) == [i \in 1..Len(d) |-> d[i].name]

HasKey(d, k) == \E i \in 1..Len(d) : d[i].name = k

Get(d, k) == d[CHOOSE i \in 1..Len(d) : d[i].name = k].val

\* d[k] = v, moving an existing key to the end (what a delete-and-insert
\* would do)
SetItemMovesKey(d, k, v) ==
    Append(SelectSeq(d, LAMBDA e : e.name # k), [name |-> k, val |-> v])

\* d[k] = v: an existing key keeps its position, a new key goes last
SetItem(d, k, v) ==
    IF HasKey(d, k)
    THEN [i \in 1..Len(d) |-> IF d[i].name = k THEN [name |-> k, val |-> v]
                                               ELSE d[i]]
    ELSE Append(d, [name |-> k, val |-> v])

\* d.update(other)
RECURSIVE update(_, _)
update(d, other) ==
    IF other = <<>> THEN d
    ELSE update(SetItem(d, Head(other).name, Head(other).val), Tail(other))

----------------------------------------------------------------------------
(* Field descriptors (serpy.fields.Field and its subclasses).  A field is  *)
(* a record of its constructor arguments and of what its class overrides.  *)

NoneVal == "None"

\* Field(attr, label, call, required); getter: what as_getter returns
\* ("none": None, "custom": a function of the source, "method": a function of
\* the serializer and the source, with getter_takes_serializer set); tv:
\* whether the field class overrides to_value
Field(attr, label, call, required, getter, tv) ==
    [attr |-> attr, label |-> label, call |-> call, required |-> required,
     getter |-> getter, tv |-> tv]

\* Field(): the field _update_direct_fields creates for an implicit name
DefaultField == Field(NoneVal, NoneVal, FALSE, TRUE, "none", FALSE)

\* field.as_getter(name, serializer_cls)
as_getter(f, name) ==
    IF f.getter = "none" THEN [kind |-> NoneVal, attr |-> NoneVal]
    ELSE [kind |-> f.getter, attr |-> name]

\* field._is_to_value_overridden()
_is_to_value_overridden(f) == f.tv

\* field.getter_takes_serializer
getter_takes_serializer(f) == f.getter = "method"

----------------------------------------------------------------------------
(* External models and class Meta.                                         *)

\* model._meta.fields of the Django model, model.__table__.columns of the
\* SQLAlchemy model: objects with a .name
ModelFields(model) ==
    CASE model = "django" -> <<"id", "name", "age">>
      [] model = "sqla"   -> <<"id", "name">>
      [] OTHER            -> <<>>

\* getattr(model, '_meta', None) is not None
HasDjangoMeta(model) == model = "django"

\* not isinstance(getattr(model, '__table__', None), type(None))
HasSqlaTable(model) == model = "sqla"

\* an element of a list: a str (it has no .name) or an object with a .name
StrElem(n) == [isstr |-> TRUE, name |-> n]
ObjElem(n) == [isstr |-> FALSE, name |-> n]

StrList(names) == [i \in 1..Len(names) |-> StrElem(names[i])]
ObjList(names) == [i \in 1..Len(names) |-> ObjElem(names[i])]

\* Meta.fields / Meta.exclude: None, the string '__all__', or a list
NoList == [kind |-> "None", items |-> <<>>]
AllFields == [kind |-> "all", items |-> <<>>]
ListOf(items) == [kind |-> "list", items |-> items]

\* Python truth of a fields/exclude value
Truthy(l) == l.kind = "all" \/ (l.kind = "list" /\ l.items # <<>>)

\* a class body without class Meta
NoMeta == [declared |-> FALSE, model |-> NoneVal, fields |-> NoList,
           exclude |-> NoList]

MkMeta(model, fields, exclude) ==
    [declared |-> TRUE, model |-> model, fields |-> fields, exclude |-> exclude]

\* x in exclude, for a list of str
InList(n, l) == \E i \in 1..Len(l.items) : l.items[i].name = n

----------------------------------------------------------------------------
(* Schema types.  A class is a record; classes[1] is Serializer and        *)
(* classes[2] is DictSerializer.  A class body is the fields it declares,  *)
(* in order, and its class Meta.                                           *)

MkBody(fields, meta) == [fields |-> fields, meta |-> meta]

Decl(name, f) == [name |-> name, val |-> f]

EmptyBody == MkBody(<<>>, NoMeta)

\* the method resolution order type.__new__ computes (C3 linearisation):
\* the merge of the bases' orders and the list of bases
RECURSIVE Merge(_)
Merge(seqs) ==
    LET ne == SelectSeq(seqs, LAMBDA q : q # <<>>)
        cands == {i \in 1..Len(ne) :
                    \A j \in 1..Len(ne) : Head(ne[i]) \notin Range(Tail(ne[j]))}
    IN  IF ne = <<>> THEN [ok |-> TRUE, mro |-> <<>>]
        ELSE IF cands = {} THEN [ok |-> FALSE, mro |-> <<>>]
        ELSE LET i == CHOOSE i \in cands : \A k \in cands : i <= k
                 h == Head(ne[i])
                 rest == Merge([k \in 1..Len(ne) |->
                                  SelectSeq(ne[k], LAMBDA x : x # h)])
             IN  [ok |-> rest.ok, mro |-> <<h>> \o rest.mro]

\* the MRO of a new class number c with these bases
Mro(cs, c, bases) ==
    LET m == Merge([i \in 1..Len(bases) |-> cs[bases[i]].mro] \o <<bases>>)
    IN  [ok |-> m.ok, mro |-> <<c>> \o m.mro]

\* getattr(real_cls, 'Meta', None): the class' own Meta, else that of the
\* first class of its MRO that declares one
GetMeta(cs, body, mro) ==
    IF body.meta.declared THEN body.meta
    ELSE LET own == SelectSeq(Tail(mro), LAMBDA b : cs[b].body.meta.declared)
         IN  IF own = <<>> THEN NoMeta ELSE cs[Head(own)].body.meta

\* serializer_cls.default_getter: found along the MRO
ClassDefaultGetter(cs, mro) ==
    LET own == SelectSeq(Tail(mro), LAMBDA b : cs[b].default_getter # NoneVal)
    IN  cs[Head(own)].default_getter

\* real_cls._field_map before __new__ assigns it: the attribute inherited
\* from the first base of the MRO
InheritedFieldMap(cs, mro) == cs[mro[2]]._field_map

\* cls._field_map for each cls of serializer_cls.__mro__[::-1]
ClassMaps(cs, mro) ==
    Reverse([i \in 1..Len(mro) |->
                IF i = 1 THEN InheritedFieldMap(cs, mro)
                ELSE cs[mro[i]]._field_map])

\* the loop of _get_fields: field_map.update(cls._field_map) for each class
RECURSIVE WalkMaps(_, _)
WalkMaps(field_map, maps) ==
    IF maps = <<>> THEN field_map
    ELSE WalkMaps(update(field_map, Head(maps)), Tail(maps))

\* _get_fields whose update moves a replaced key to the end
RECURSIVE UpdateMovesKey(_, _)
UpdateMovesKey(d, other) ==
    IF other = <<>> THEN d
    ELSE UpdateMovesKey(SetItemMovesKey(d, Head(other).name, Head(other).val),
                        Tail(other))

RECURSIVE WalkMapsMovingKeys(_, _)
WalkMapsMovingKeys(field_map, maps) ==
    IF maps = <<>> THEN field_map
    ELSE WalkMapsMovingKeys(UpdateMovesKey(field_map, Head(maps)), Tail(maps))

GetFieldsMovingKeys(cs, direct_fields, mro) ==
    UpdateMovesKey(WalkMapsMovingKeys(<<>>, ClassMaps(cs, mro)), direct_fields)

\* SerializerMeta._get_fields(direct_fields, serializer_cls)
_get_fields(cs, direct_fields, mro) ==
    update(WalkMaps(<<>>, ClassMaps(cs, mro)), direct_fields)

\* _compile_field_to_tuple(field, name, serializer_cls)
_compile_field_to_tuple(field, name, default_getter) ==
    LET g == as_getter(field.spec, name)
        getter == IF g.kind = NoneVal
                  THEN [kind |-> default_getter,
                        attr |-> IF field.spec.attr # NoneVal
                                 THEN field.spec.attr ELSE name]
                  ELSE g
    IN  [name |-> IF field.spec.label # NoneVal THEN field.spec.label ELSE name,
         getter |-> getter,
         to_value |-> _is_to_value_overridden(field.spec),
         call |-> field.spec.call,
         required |-> field.spec.required,
         pass_self |-> getter_takes_serializer(field.spec)]

\* SerializerMeta._compile_fields(field_map, serializer_cls)
_compile_fields(field_map, default_getter) ==
    [i \in 1..Len(field_map) |->
        _compile_field_to_tuple(field_map[i].val, field_map[i].name,
                            default_getter)]

\* SerializerMeta._get_implicit_fields(model_fields, fields, exclude)
_get_implicit_fields(model_fields, fields, exclude) ==
    IF fields.kind = "all" THEN ObjList(model_fields)
    ELSE IF ~Truthy(fields) /\ Truthy(exclude)
    THEN ObjList(SelectSeq(model_fields, LAMBDA n : ~InList(n, exclude)))
    ELSE fields.items

\* SerializerMeta._update_direct_fields(direct_fields, explicit_fields,
\* implicit_fields), explicit_fields being the live key view of direct_fields;
\* c numbers the class, whose Field() objects are new ones.  field.name of a
\* str raises AttributeError.
RECURSIVE _update_direct_fields(_, _, _)
_update_direct_fields(direct_fields, implicit_fields, c) ==
    IF implicit_fields = <<>> THEN [exc |-> NoneVal, direct |-> direct_fields]
    ELSE IF Head(implicit_fields).isstr
    THEN [exc |-> "AttributeError", direct |-> direct_fields]
    ELSE _update_direct_fields(
             IF HasKey(direct_fields, Head(implicit_fields).name)
             THEN direct_fields
             ELSE Append(direct_fields,
                         [name |-> Head(implicit_fields).name,
                          val |-> [spec |-> DefaultField, owner |-> c]]),
             Tail(implicit_fields), c)

\* the Meta checks of __new__ that skip the fields-and-exclude conflict
CheckMetaNoConflict(meta) ==
    IF meta.model = NoneVal THEN "RuntimeError:model"
    ELSE IF ~Truthy(meta.fields) /\ ~Truthy(meta.exclude)
    THEN "RuntimeError:neither"
    ELSE IF ~HasDjangoMeta(meta.model) /\ ~HasSqlaTable(meta.model)
    THEN "RuntimeError:deduce"
    ELSE NoneVal

\* the checks __new__ makes of a Meta, in order: the exception raised, or None
CheckMeta(meta) ==
    IF meta.model = NoneVal THEN "RuntimeError:model"
    ELSE IF ~Truthy(meta.fields) /\ ~Truthy(meta.exclude)
    THEN "RuntimeError:neither"
    ELSE IF Truthy(meta.fields) /\ Truthy(meta.exclude)
    THEN "RuntimeError:both"
    ELSE IF ~HasDjangoMeta(meta.model) /\ ~HasSqlaTable(meta.model)
    THEN "RuntimeError:deduce"
    ELSE NoneVal

\* SerializerMeta.__new__(cls, name, bases, attrs) for the class numbered
\* Len(cs) + 1: the exception it raises (or None), the Meta it read, and the
\* class it returns (none when it raises)
__new__(cs, bases, body) ==
    LET c == Len(cs) + 1
        direct0 == [i \in 1..Len(body.fields) |->
                      [name |-> body.fields[i].name,
                       val |-> [spec |-> body.fields[i].val, owner |-> c]]]
        m == Mro(cs, c, bases)
        meta == GetMeta(cs, body, m.mro)
        bad == CheckMeta(meta)
        upd == IF meta.declared
               THEN _update_direct_fields(
                        direct0,
                        _get_implicit_fields(ModelFields(meta.model), meta.fields,
                                          meta.exclude),
                        c)
               ELSE [exc |-> NoneVal, direct |-> direct0]
        getter == ClassDefaultGetter(cs, m.mro)
        field_map == _get_fields(cs, upd.direct, m.mro)
    IN  IF ~m.ok
        THEN [exc |-> "TypeError", meta |-> body.meta, cls |-> <<>>]
        ELSE IF meta.declared /\ bad # NoneVal
        THEN [exc |-> bad, meta |-> meta, cls |-> <<>>]
        ELSE IF upd.exc # NoneVal
        THEN [exc |-> upd.exc, meta |-> meta, cls |-> <<>>]
        ELSE [exc |-> NoneVal, meta |-> meta,
              cls |-> << [bases |-> bases, body |-> body, mro |-> m.mro,
                          default_getter |-> NoneVal,
                          direct |-> upd.direct,
                          _field_map |-> field_map,
                          _compiled_fields |->
                              _compile_fields(field_map, getter)] >>]

\* class Serializer(six.with_metaclass(SerializerMeta, SerializerBase))
Serializer ==
    [bases |-> <<>>, body |-> EmptyBody, mro |-> <<1>>,
     default_getter |-> "attrgetter", direct |-> <<>>, _field_map |-> <<>>,
     _compiled_fields |-> <<>>]

\* class DictSerializer(Serializer)
DictSerializer ==
    [bases |-> <<1>>, body |-> EmptyBody, mro |-> <<2, 1>>,
     default_getter |-> "itemgetter", direct |-> <<>>, _field_map |-> <<>>,
     _compiled_fields |-> <<>>]

\* the classes the module defines when it is imported
BuiltinClasses == <<Serializer, DictSerializer>>

----------------------------------------------------------------------------
(* Execution.  A value is a tuple of tags: None, a number, a function of   *)
(* no arguments returning a value, or a value to_value has converted.  A   *)
(* source object maps each attribute (or key) either to a value or to      *)
(* Missing, which is no value: the attribute is not there.                 *)

PyNone == <<"None">>
Zero == <<"0">>
One == <<"1">>
Fn(v) == <<"fn">> \o v
Missing == <<"missing">>

IsFn(v) == Head(v) = "fn"

\* field.to_value(v) of a field class that overrides it
FieldToValue(v) == <<"tv">> \o v

\* the extractor called on a source: the value, or the exception of a missing
\* attribute or key.  A custom extractor or serializer method reads the
\* attribute it is named after.
RunGetter(getter, source) ==
    IF source[getter.attr] = Missing
    THEN [exc |-> IF getter.kind = "itemgetter" THEN "KeyError"
                  ELSE "AttributeError",
          val |-> PyNone]
    ELSE [exc |-> NoneVal, val |-> source[getter.attr]]

\* the conversion of an extracted value: result() if call, then to_value
Convert(f, result) ==
    IF f.call /\ ~IsFn(result) THEN [exc |-> "TypeError", val |-> result]
    ELSE LET called == IF f.call THEN Tail(result) ELSE result
         IN  [exc |-> NoneVal,
              val |-> IF f.to_value THEN FieldToValue(called) ELSE called]

\* one turn of the loop of _serialize that converts the result of a
\* serializer method as well
SerializeFieldConvertsAll(f, source, v) ==
    LET got == RunGetter(f.getter, source)
        conv == Convert(f, got.val)
    IN  IF got.exc # NoneVal
        THEN IF f.required \/ f.pass_self THEN [exc |-> got.exc, v |-> v]
             ELSE [exc |-> NoneVal, v |-> v]
        ELSE IF f.required \/ got.val # PyNone
        THEN IF conv.exc # NoneVal THEN [exc |-> conv.exc, v |-> v]
             ELSE [exc |-> NoneVal, v |-> SetItem(v, f.name, conv.val)]
        ELSE [exc |-> NoneVal, v |-> SetItem(v, f.name, got.val)]

\* one turn that skips a field whose lookup fails even when it is required
SerializeFieldNeverRaises(f, source, v) ==
    LET got == RunGetter(f.getter, source)
        conv == Convert(f, got.val)
    IN  IF f.pass_self
        THEN IF got.exc # NoneVal THEN [exc |-> got.exc, v |-> v]
             ELSE [exc |-> NoneVal, v |-> SetItem(v, f.name, got.val)]
        ELSE IF got.exc # NoneVal
        THEN [exc |-> NoneVal, v |-> v]
        ELSE IF f.required \/ got.val # PyNone
        THEN IF conv.exc # NoneVal THEN [exc |-> conv.exc, v |-> v]
             ELSE [exc |-> NoneVal, v |-> SetItem(v, f.name, conv.val)]
        ELSE [exc |-> NoneVal, v |-> SetItem(v, f.name, got.val)]

\* one turn that stores None for an optional field whose lookup fails
SerializeFieldStoresNone(f, source, v) ==
    LET got == RunGetter(f.getter, source)
        conv == Convert(f, got.val)
    IN  IF f.pass_self
        THEN IF got.exc # NoneVal THEN [exc |-> got.exc, v |-> v]
             ELSE [exc |-> NoneVal, v |-> SetItem(v, f.name, got.val)]
        ELSE IF got.exc # NoneVal
        THEN IF f.required THEN [exc |-> got.exc, v |-> v]
             ELSE [exc |-> NoneVal, v |-> SetItem(v, f.name, PyNone)]
        ELSE IF f.required \/ got.val # PyNone
        THEN IF conv.exc # NoneVal THEN [exc |-> conv.exc, v |-> v]
             ELSE [exc |-> NoneVal, v |-> SetItem(v, f.name, conv.val)]
        ELSE [exc |-> NoneVal, v |-> SetItem(v, f.name, got.val)]

\* one turn of the loop of Serializer._serialize, for the compiled field f:
\* the exception it raises (or None) and v after it
SerializeField(f, source, v) ==
    LET got == RunGetter(f.getter, source)
        conv == Convert(f, got.val)
    IN  IF f.pass_self
        THEN IF got.exc # NoneVal THEN [exc |-> got.exc, v |-> v]
             ELSE [exc |-> NoneVal, v |-> SetItem(v, f.name, got.val)]
        ELSE IF got.exc # NoneVal
        THEN IF f.required THEN [exc |-> got.exc, v |-> v]
             ELSE [exc |-> NoneVal, v |-> v]
        ELSE IF f.required \/ got.val # PyNone
        THEN IF conv.exc # NoneVal THEN [exc |-> conv.exc, v |-> v]
             ELSE [exc |-> NoneVal, v |-> SetItem(v, f.name, conv.val)]
        ELSE [exc |-> NoneVal, v |-> SetItem(v, f.name, got.val)]

\* Serializer._serialize(instance, fields): the exception (or None), the dict
\* v, and the number of fields whose extractor was called
RECURSIVE SerializeLoop(_, _, _, _)
SerializeLoop(fields, source, v, ran) ==
    IF fields = <<>> THEN [exc |-> NoneVal, v |-> v, ran |-> ran]
    ELSE LET r == SerializeField(Head(fields), source, v)
         IN  IF r.exc # NoneVal
             THEN [exc |-> r.exc, v |-> <<>>, ran |-> ran + 1]
             ELSE SerializeLoop(Tail(fields), source, r.v, ran + 1)

_serialize(fields, source) == SerializeLoop(fields, source, <<>>, 0)

\* Serializer.to_value(instance): the sources are the elements of the
\* collection when many is set, else the one instance; out holds one dict per
\* element serialized, ran the number of extractors called per element
RECURSIVE ToValueLoop(_, _, _, _)
ToValueLoop(fields, sources, out, ran) ==
    IF sources = <<>> THEN [exc |-> NoneVal, out |-> out, ran |-> ran]
    ELSE LET r == _serialize(fields, Head(sources))
         IN  IF r.exc # NoneVal
             THEN [exc |-> r.exc, out |-> <<>>,
                   ran |-> ran \o <<r.ran>> \o [i \in 1..Len(Tail(sources)) |-> 0]]
             ELSE ToValueLoop(fields, Tail(sources), Append(out, r.v),
                              Append(ran, r.ran))

to_value(fields, sources) == ToValueLoop(fields, sources, <<>>, <<>>)

----------------------------------------------------------------------------
(* The inputs the model draws from.                                        *)

\* class bodies that declare fields only
FieldBodies ==
    { EmptyBody,
      MkBody(<<Decl("x", DefaultField)>>, NoMeta),
      MkBody(<<Decl("y", DefaultField),
               Decl("x", Field(NoneVal, NoneVal, FALSE, FALSE, "none", FALSE))>>,
             NoMeta) }

MethodField == Field(NoneVal, NoneVal, FALSE, TRUE, "method", FALSE)

ExcludeAge == ListOf(StrList(<<"age">>))
IncludeIdName == ListOf(StrList(<<"id", "name">>))

\* class bodies with a well-formed class Meta, and the bodies used with them
ModelBodies ==
    { EmptyBody,
      MkBody(<<Decl("y", DefaultField),
               Decl("id", Field(NoneVal, NoneVal, FALSE, FALSE, "none", TRUE))>>,
             NoMeta),
      MkBody(<<>>, MkMeta("django", NoList, ExcludeAge)),
      MkBody(<<Decl("name", MethodField)>>, MkMeta("django", NoList, ExcludeAge)),
      MkBody(<<>>, MkMeta("sqla", AllFields, NoList)),
      MkBody(<<>>, MkMeta("django", IncludeIdName, NoList)) }

\* class bodies whose class Meta is not a valid configuration
InvalidBodies ==
    { MkBody(<<>>, MkMeta("django", IncludeIdName, ExcludeAge)),
      MkBody(<<>>, MkMeta("django", AllFields, ExcludeAge)),
      MkBody(<<>>, MkMeta("django", NoList, NoList)),
      MkBody(<<>>, MkMeta("sqla", ListOf(<<>>), ListOf(<<>>))),
      MkBody(<<>>, MkMeta(NoneVal, NoList, ExcludeAge)),
      MkBody(<<Decl("x", DefaultField)>>, MkMeta(NoneVal, NoList, NoList)),
      MkBody(<<>>, MkMeta("plain", NoList, ExcludeAge)),
      MkBody(<<>>, MkMeta("plain", AllFields, NoList)) }

\* the base lists of a class statement: one class, or two classes the
\* program defined
BaseLists(cs, roots) ==
    {<<b>> : b \in roots \cup (3..Len(cs))}
    \cup {p \in (3..Len(cs)) \X (3..Len(cs)) : p[1] # p[2]}

----------------------------------------------------------------------------
(* Schema definition.                                                      *)

NoInst == [cls |-> 0, many |-> FALSE, source |-> <<>>, _data |-> 0]

Imported == [op |-> "import", exc |-> NoneVal, cls |-> 0, meta |-> NoMeta,
             explicit |-> 0, bases |-> <<>>]

\* the module is imported: Serializer and DictSerializer exist
Init ==
    /\ classes = BuiltinClasses
    /\ last = Imported
    /\ inst = NoInst
    /\ heap = <<>>
    /\ calls = <<>>
    /\ pc = <<>>
    /\ tmp = <<>>
    /\ ret = <<>>
    /\ raised = <<>>

\* a class statement with these bases and this body runs
\* SerializerMeta.__new__; the class exists only if it returns
DefineClass(bases, body) ==
    LET r == __new__(classes, bases, body)
    IN  /\ classes' = classes \o r.cls
        /\ last' = [op |-> "define", exc |-> r.exc,
                    cls |-> IF r.cls = <<>> THEN 0 ELSE Len(classes) + 1,
                    meta |-> r.meta, explicit |-> Len(body.fields),
                    bases |-> IF r.exc = "TypeError" THEN bases ELSE <<>>]
        /\ UNCHANGED <<inst, heap, calls, pc, tmp, ret, raised>>

\* the sources offered to the schema types defined with a model
AttrNames == {"x", "y", "id", "name", "age"}
FullSource == [a \in AttrNames |-> Zero]
EmptySource == [a \in AttrNames |-> Missing]

\* Serializer.__init__: the exception it raises, or None
__init__(data) ==
    IF data # NoneVal THEN "RuntimeError:validation" ELSE NoneVal

\* c(source, data=data).data: an instance of the class c is made and its
\* data read once
ReadData(c, source, data) ==
    LET r == to_value(classes[c]._compiled_fields, <<source>>)
    IN  /\ last' = [op |-> IF __init__(data) # NoneVal THEN "init" ELSE "data",
                    exc |-> IF __init__(data) # NoneVal THEN __init__(data)
                            ELSE r.exc,
                    cls |-> 0, meta |-> NoMeta, explicit |-> 0, bases |-> <<>>]
        /\ UNCHANGED <<classes, inst, heap, calls, pc, tmp, ret, raised>>

\* the program defines a schema type, with or without a class Meta
Define ==
    \E bases \in BaseLists(classes, {1, 2}) :
    \E body \in ModelBodies \cup InvalidBodies :
       /\ Len(classes) < Len(BuiltinClasses) + MaxClasses
       /\ DefineClass(bases, body)

\* the program serializes an object with a schema type it defined
Read ==
    \E c \in 3..Len(classes) :
    \E source \in {FullSource, EmptySource} :
    \E data \in {NoneVal, "payload"} :
       ReadData(c, source, data)

Next == Define \/ Read

Spec == Init /\ [][Next]_vars

\* the program defines a schema type that only declares fields
DefinePlain ==
    \E bases \in BaseLists(classes, {1}) :
    \E body \in FieldBodies :
       /\ Len(classes) < Len(BuiltinClasses) + MaxPlainClasses
       /\ DefineClass(bases, body)

NextPlain == DefinePlain

\* the runs in which classes only declare fields
SpecPlain == Init /\ [][NextPlain]_vars

----------------------------------------------------------------------------
(* Properties of schema definition.                                        *)

UserClasses == 3..Len(classes)

\* a sequence without its repetitions, each element at its first place
RECURSIVE FirstOccurrences(_)
FirstOccurrences(q) ==
    IF q = <<>> THEN <<>>
    ELSE <<Head(q)>> \o FirstOccurrences(SelectSeq(Tail(q), LAMBDA e : e # Head(q)))

\* the names a class declares itself: the fields of its body and the implicit
\* fields its definition added
Declares(c, n) == HasKey(classes[c].direct, n)

\* the first class of T's method resolution order, T included, declaring n
NearestDeclaring(T, n) ==
    LET m == classes[T].mro
    IN  m[CHOOSE i \in 1..Len(m) :
            /\ Declares(m[i], n)
            /\ \A j \in 1..(i - 1) : ~Declares(m[j], n)]

DeclaredNames(T) ==
    UNION {Range(Keys(classes[c].direct)) : c \in Range(classes[T].mro)}

\* C1: the merged field map of every schema type has as keys the names
\* declared by the type and its ancestors, each with the descriptor of the
\* nearest class of the type's ancestor order that declares it, in chains and
\* in diamonds alike.
C1_NearestDeclarationWins ==
    \A T \in UserClasses :
        /\ Range(Keys(classes[T]._field_map)) = DeclaredNames(T)
        /\ \A n \in DeclaredNames(T) :
              Get(classes[T]._field_map, n)
                  = Get(classes[NearestDeclaring(T, n)].direct, n)

\* the names of the compiled plan
PlanNames(c) ==
    [i \in 1..Len(classes[c]._compiled_fields) |->
        classes[c]._compiled_fields[i].name]

\* a Meta the specification allows: a model an adapter recognises, and
\* exactly one of the inclusion and the exclusion list
ValidConfig(meta) ==
    /\ meta.model \in {"django", "sqla"}
    /\ Truthy(meta.fields) # Truthy(meta.exclude)

ConfigErrors ==
    {"RuntimeError:model", "RuntimeError:neither", "RuntimeError:both",
     "RuntimeError:deduce"}

NoInheritedFields(c) ==
    \A i \in 1..Len(classes[c].bases) :
        classes[classes[c].bases[i]]._field_map = <<>>

\* C6: a schema type bound to a model, with no declared fields: with an
\* inclusion list L the definition succeeds and the plan's names are L; with
\* an exclusion list E the plan's names are the model's names not in E, in
\* the model's order.
C6_ImplicitPlan ==
    (/\ last.op = "define"
     /\ last.meta.declared
     /\ ValidConfig(last.meta)
     /\ last.explicit = 0)
    => /\ last.exc = NoneVal
       /\ last.cls # 0
       /\ (last.cls # 0 /\ NoInheritedFields(last.cls))
          => PlanNames(last.cls) =
                IF last.meta.fields.kind = "list"
                THEN [i \in 1..Len(last.meta.fields.items) |->
                         last.meta.fields.items[i].name]
                ELSE SelectSeq(ModelFields(last.meta.model),
                               LAMBDA n : ~InList(n, last.meta.exclude))

\* the Meta a defined class is configured by
MetaOf(c) == GetMeta(classes, classes[c].body, classes[c].mro)

\* C8: an invalid configuration raises a configuration error when the schema
\* type is defined (Python's own TypeError when the bases have no consistent
\* method resolution order, which type.__new__ finds before Meta is read) and
\* nothing is stored for it, so every schema type that exists has a valid
\* configuration (or none); reading data never raises a configuration error.
C8_InvalidConfigNeverStored ==
    /\ \A c \in UserClasses : MetaOf(c).declared => ValidConfig(MetaOf(c))
    /\ (last.op = "define" /\ last.meta.declared /\ ~ValidConfig(last.meta))
       => (last.exc \in ConfigErrors \cup {"TypeError"} /\ last.cls = 0)
    /\ (last.op = "define" /\ last.exc = "TypeError")
       => ~Mro(classes, Len(classes) + 1, last.bases).ok
    /\ last.op = "data" => last.exc \notin ConfigErrors
    /\ last.exc \in ConfigErrors => last.op = "define"

\* an invalid Meta was rejected after schema types had been defined and read
C8_Witness ==
    /\ last.op = "define"
    /\ last.exc = "RuntimeError:both"
    /\ Len(classes) > Len(BuiltinClasses)

\* the names declared along the ancestor walk: the ancestors from the most
\* ancestral on, then the class itself
WalkNames(T) ==
    LET rev == Reverse(classes[T].mro)
    IN  Concat([i \in 1..Len(rev) |-> Keys(classes[rev[i]].direct)])

BodyNames(c) ==
    [i \in 1..Len(classes[c].body.fields) |-> classes[c].body.fields[i].name]

\* the names the model of T's Meta contributes, in the model's order
ModelNames(T) ==
    LET m == MetaOf(T)
    IN  IF ~m.declared THEN <<>>
        ELSE IF m.fields.kind = "all" THEN ModelFields(m.model)
        ELSE SelectSeq(ModelFields(m.model), LAMBDA n : ~InList(n, m.exclude))

\* C9: the plan lists the names in the order they first become keys during
\* the ancestor walk: ancestors first, then the type's own declarations in
\* order, then its implicit fields; a redeclared name stays where it was.
C9_PlanOrder ==
    \A T \in UserClasses :
        /\ Keys(classes[T]._field_map) = FirstOccurrences(WalkNames(T))
        /\ Len(classes[T]._compiled_fields) = Len(classes[T]._field_map)
        /\ \A i \in 1..Len(classes[T]._field_map) :
              LET e == classes[T]._field_map[i]
              IN  classes[T]._compiled_fields[i].name =
                     IF e.val.spec.label # NoneVal THEN e.val.spec.label
                     ELSE e.name
        /\ SubSeq(Keys(classes[T].direct), 1, Len(BodyNames(T))) = BodyNames(T)
        /\ SubSeq(Keys(classes[T].direct), Len(BodyNames(T)) + 1,
                  Len(classes[T].direct))
              = SelectSeq(ModelNames(T), LAMBDA n : n \notin Range(BodyNames(T)))
        /\ \A i \in (Len(BodyNames(T)) + 1)..Len(classes[T].direct) :
              classes[T].direct[i].val.spec = DefaultField

\* a type redeclares a name an ancestor introduced, declares a new name
\* before it, and has implicit fields
C9_Witness ==
    \E T \in UserClasses :
        /\ Len(BodyNames(T)) = 2
        /\ Len(classes[T].direct) > 2
        /\ \E P \in Range(Tail(classes[T].mro)) :
              /\ Declares(P, BodyNames(T)[2])
              /\ ~Declares(P, BodyNames(T)[1])
        /\ classes[T]._field_map[Len(classes[T]._field_map)].name = BodyNames(T)[1]

\* C10: a subclass of a model-bound schema type that declares nothing of its
\* own compiles to its parent's plan.
C10_ChildKeepsParentPlan ==
    \A T \in UserClasses :
        (/\ classes[T].body = EmptyBody
         /\ Len(classes[T].bases) = 1
         /\ classes[T].bases[1] \in UserClasses
         /\ MetaOf(classes[T].bases[1]).declared)
        => classes[T]._compiled_fields
              = classes[classes[T].bases[1]]._compiled_fields

----------------------------------------------------------------------------
(* A schema instance and its data property.                                *)

Threads == DOMAIN pc

\* the compiled plan the instance borrows from its class
Plan == classes[inst.cls]._compiled_fields

Accesses(t) == Len(ret[t]) + raised[t]

\* calls after an execution that called the first ran[e] extractors of the
\* plan on element e
Count(old, ran) ==
    [e \in 1..Len(old) |->
        [i \in 1..Len(old[e]) |-> old[e][i] + (IF i <= ran[e] THEN 1 ELSE 0)]]

ResultOf(exc) ==
    [op |-> "data", exc |-> exc, cls |-> 0, meta |-> NoMeta, explicit |-> 0,
     bases |-> <<>>]

\* a thread reads the property: `if self._data is None`
Enter(t) ==
    /\ pc[t] = "idle"
    /\ Accesses(t) < MaxAccesses
    /\ pc' = [pc EXCEPT ![t] = IF inst._data = 0 THEN "to_value" ELSE "return"]
    /\ UNCHANGED <<classes, last, inst, heap, calls, tmp, ret, raised>>

\* data that hands out the new object without keeping it
ComputeNoStore(t) ==
    LET r == to_value(Plan, inst.source)
    IN  /\ pc[t] = "to_value"
        /\ calls' = Count(calls, r.ran)
        /\ last' = ResultOf(r.exc)
        /\ IF r.exc # NoneVal
           THEN /\ raised' = [raised EXCEPT ![t] = @ + 1]
                /\ pc' = [pc EXCEPT ![t] = "idle"]
                /\ UNCHANGED <<heap, tmp, ret>>
           ELSE /\ heap' = Append(heap, [many |-> inst.many, items |-> r.out])
                /\ ret' = [ret EXCEPT ![t] = Append(@, Len(heap) + 1)]
                /\ pc' = [pc EXCEPT ![t] = "idle"]
                /\ UNCHANGED <<raised, tmp>>
        /\ UNCHANGED <<classes, inst>>

\* self.to_value(self.instance): the plan is executed; an exception leaves
\* the property, a result is a new object
Compute(t) ==
    LET r == to_value(Plan, inst.source)
    IN  /\ pc[t] = "to_value"
        /\ calls' = Count(calls, r.ran)
        /\ last' = ResultOf(r.exc)
        /\ IF r.exc # NoneVal
           THEN /\ raised' = [raised EXCEPT ![t] = @ + 1]
                /\ pc' = [pc EXCEPT ![t] = "idle"]
                /\ UNCHANGED <<heap, tmp>>
           ELSE /\ heap' = Append(heap, [many |-> inst.many, items |-> r.out])
                /\ tmp' = [tmp EXCEPT ![t] = Len(heap) + 1]
                /\ pc' = [pc EXCEPT ![t] = "store"]
                /\ UNCHANGED raised
        /\ UNCHANGED <<classes, inst, ret>>

\* self._data = <the object to_value returned>
Store(t) ==
    /\ pc[t] = "store"
    /\ inst' = [inst EXCEPT !._data = tmp[t]]
    /\ tmp' = [tmp EXCEPT ![t] = 0]
    /\ pc' = [pc EXCEPT ![t] = "return"]
    /\ UNCHANGED <<classes, last, heap, calls, ret, raised>>

\* return self._data
Return(t) ==
    /\ pc[t] = "return"
    /\ ret' = [ret EXCEPT ![t] = Append(@, inst._data)]
    /\ pc' = [pc EXCEPT ![t] = "idle"]
    /\ UNCHANGED <<classes, last, inst, heap, calls, tmp, raised>>

Entering == \E t \in Threads : Enter(t)
Computing == \E t \in Threads : Compute(t)
Storing == \E t \in Threads : Store(t)
Returning == \E t \in Threads : Return(t)

NextData == Entering \/ Computing \/ Storing \/ Returning

\* the fields of the schema types that are executed: every combination of
\* call, required, extractor and to_value, a field reading another attribute
\* and a field with a label
FieldSpecs ==
    {Field(NoneVal, NoneVal, c, r, g, tv) :
        c \in BOOLEAN, r \in BOOLEAN, g \in {"none", "custom", "method"},
        tv \in BOOLEAN}
    \cup {Field("b", NoneVal, FALSE, TRUE, "none", FALSE),
          Field(NoneVal, "c", FALSE, FALSE, "none", FALSE)}

SecondFieldSpecs ==
    {DefaultField, MethodField,
     Field(NoneVal, NoneVal, FALSE, FALSE, "none", FALSE)}

ExecBodies ==
    {MkBody(<<Decl("a", f)>>, NoMeta) : f \in FieldSpecs}
    \cup {MkBody(<<Decl("a", f), Decl("b", g)>>, NoMeta) :
             f \in FieldSpecs, g \in SecondFieldSpecs}

\* values Python takes for false, none of them None
FalsyValues == {Zero, <<"False">>, <<"''">>}

ObjSources ==
    {[a |-> va, b |-> vb] :
        va \in {Missing, PyNone, Fn(Zero)} \cup FalsyValues,
        vb \in {Missing, Zero}}

\* the elements of the collections serialized with many=True
ManyElements ==
    {[a |-> Zero, b |-> Zero], [a |-> Missing, b |-> Zero],
     [a |-> Fn(Zero), b |-> Missing]}

\* a schema type with this body is defined and an instance of it constructed
\* (Serializer.__init__ sets _data to None), for these threads to read
Constructed(threads, base, body, many, source) ==
    /\ classes = BuiltinClasses \o __new__(BuiltinClasses, <<base>>, body).cls
    /\ last = Imported
    /\ inst = [cls |-> Len(BuiltinClasses) + 1, many |-> many,
               source |-> source, _data |-> 0]
    /\ heap = <<>>
    /\ calls = [e \in 1..Len(source) |-> [i \in 1..Len(body.fields) |-> 0]]
    /\ pc = [t \in threads |-> "idle"]
    /\ tmp = [t \in threads |-> 0]
    /\ ret = [t \in threads |-> <<>>]
    /\ raised = [t \in threads |-> 0]

InitData ==
    \E body \in ExecBodies, base \in {1, 2} :
       \/ \E source \in ObjSources :
             Constructed({"t1"}, base, body, FALSE, <<source>>)
       \/ \E source \in SeqsUpTo(ManyElements, MaxMany) :
             Constructed({"t1"}, base, body, TRUE, source)

\* one thread reads the data of one instance again and again
SpecData == InitData /\ [][NextData]_vars

CounterField == Field(NoneVal, NoneVal, FALSE, TRUE, "custom", FALSE)

InitThreads ==
    \E body \in {MkBody(<<Decl("a", CounterField)>>, NoMeta),
                 MkBody(<<Decl("a", DefaultField), Decl("b", DefaultField)>>,
                        NoMeta)} :
       \/ \E source \in {[a |-> Zero, b |-> Zero], [a |-> Zero, b |-> Missing]} :
             Constructed({"t1", "t2"}, 1, body, FALSE, <<source>>)
       \/ Constructed({"t1", "t2"}, 1, body, TRUE,
                      <<[a |-> Zero, b |-> Zero], [a |-> One, b |-> Zero]>>)

\* two threads read the data of one instance
SpecThreads == InitThreads /\ [][NextData]_vars

----------------------------------------------------------------------------
(* Properties of execution.                                                *)

MissingErrors == {"AttributeError", "KeyError"}

Elements == 1..Len(inst.source)

\* the extractor of plan entry i finds nothing to extract in element e
Lacks(e, i) == RunGetter(Plan[i].getter, inst.source[e]).exc # NoneVal

\* what the extractor of plan entry i returns for element e
Extracted(e, i) == RunGetter(Plan[i].getter, inst.source[e]).val

\* the output mappings produced so far, for element e
OutputsFor(e) == {heap[k].items[e] : k \in 1..Len(heap)}

Returned == \E t \in Threads : ret[t] # <<>>

\* C2: the first access to data executes the plan, and every later access
\* returns the same cached object without running an extractor again: once
\* an access has returned, one object exists, every access returned it, and
\* each extractor has run exactly once per source element.  (An access that
\* raises returns no output and caches nothing.)
C2_CachedOnce ==
    /\ Len(heap) <= 1
    /\ \A t \in Threads : \A k \in 1..Len(ret[t]) :
          ret[t][k] = 1 /\ inst._data = 1
    /\ Returned =>
          /\ Len(heap) = 1
          /\ \A e \in Elements : \A i \in 1..Len(Plan) : calls[e][i] = 1

\* data was read twice from an instance whose plan has a custom extractor
C2_Witness ==
    /\ \E t \in Threads : Len(ret[t]) = 2
    /\ Elements # {}
    /\ \E i \in 1..Len(Plan) :
          /\ Plan[i].getter.kind \in {"custom", "method"}
          /\ \A e \in Elements : calls[e][i] = 1

\* C3: when threads read the data of one instance concurrently, the plan is
\* executed at most once and every caller gets the same object.
C3_OneExecution ==
    /\ Len(heap) <= 1
    /\ \A t, u \in Threads : \A j \in 1..Len(ret[t]) : \A k \in 1..Len(ret[u]) :
          ret[t][j] = ret[u][k]

\* C4: a required field whose source lacks it makes the execution raise the
\* missing-attribute error, and no output exists for the instance; a required
\* field the source has, whatever its value, raises no such error and is a
\* key of every output mapping produced.
C4_RequiredField ==
    \A e \in Elements : \A i \in 1..Len(Plan) :
        Plan[i].required =>
            IF Lacks(e, i)
            THEN /\ SerializeField(Plan[i], inst.source[e], <<>>).exc
                       \in MissingErrors
                 /\ _serialize(Plan, inst.source[e]).exc # NoneVal
                 /\ heap = <<>> /\ inst._data = 0 /\ ~Returned
                 /\ last.op = "data" => last.exc # NoneVal
            ELSE /\ SerializeField(Plan[i], inst.source[e], <<>>).exc
                       \notin MissingErrors
                 /\ \A out \in OutputsFor(e) : HasKey(out, Plan[i].name)

\* a read of data raised for the missing attribute of a required field, the
\* fields before it being there
C4_Witness ==
    /\ last.op = "data"
    /\ last.exc \in MissingErrors
    /\ Len(Plan) = 2
    /\ \E t \in Threads : raised[t] = 1
    /\ \E e \in Elements :
          /\ ~Lacks(e, 1)
          /\ Plan[2].required /\ ~Plan[2].pass_self /\ Lacks(e, 2)

\* a plan without its entry i
Without(plan, i) == SubSeq(plan, 1, i - 1) \o SubSeq(plan, i + 1, Len(plan))

\* C5: an optional field read by a one-argument extractor whose source lacks
\* it raises nothing and stores no key (output names being distinct), and
\* the execution gives what the plan without the field gives.
C5_OptionalField ==
    \A e \in Elements : \A i \in 1..Len(Plan) :
        (~Plan[i].required /\ ~Plan[i].pass_self /\ Lacks(e, i)) =>
            /\ SerializeField(Plan[i], inst.source[e], <<>>)
                  = [exc |-> NoneVal, v |-> <<>>]
            /\ _serialize(Plan, inst.source[e]).exc
                  = _serialize(Without(Plan, i), inst.source[e]).exc
            /\ \A out \in OutputsFor(e) :
                  /\ ~HasKey(out, Plan[i].name)
                  /\ out = _serialize(Without(Plan, i), inst.source[e]).v

\* an output was produced from a source lacking an optional field, the other
\* field of the plan being stored
C5_Witness ==
    /\ Len(Plan) = 2
    /\ \E e \in Elements :
          /\ ~Plan[1].required /\ ~Plan[1].pass_self /\ Lacks(e, 1)
          /\ \E out \in OutputsFor(e) : Keys(out) = <<Plan[2].name>>

\* what a callable field should hold: the value its function returns, once
\* converted
CalledValue(e, i) ==
    IF Plan[i].to_value THEN FieldToValue(Tail(Extracted(e, i)))
    ELSE Tail(Extracted(e, i))

CallableCase(e, i) ==
    Plan[i].call /\ ~Lacks(e, i) /\ IsFn(Extracted(e, i))

\* C7 as stated: a callable field whose extractor returns a function holds
\* the function's return value (converted), whatever the kind of extractor.
C7_CallableAnyExtractor ==
    \A e \in Elements : \A i \in 1..Len(Plan) :
        CallableCase(e, i) =>
            \A out \in OutputsFor(e) : Get(out, Plan[i].name) = CalledValue(e, i)

\* C7 amended: so it is for the default lookup and for a custom extractor of
\* the source alone; a field whose extractor takes the serializer holds what
\* the extractor returned, the function itself, not converted.
C7_CallableOneArgument ==
    \A e \in Elements : \A i \in 1..Len(Plan) :
        CallableCase(e, i) =>
            \A out \in OutputsFor(e) :
                Get(out, Plan[i].name) =
                    IF Plan[i].pass_self THEN Extracted(e, i)
                    ELSE CalledValue(e, i)

\* an output holds the converted return value of a function a custom
\* extractor returned
C7_Witness ==
    \E e \in Elements :
        /\ CallableCase(e, 1)
        /\ Plan[1].getter.kind = "custom"
        /\ Plan[1].to_value
        /\ \E out \in OutputsFor(e) : Get(out, Plan[1].name) = <<"tv", "0">>

====
